---- MODULE Spec2Model ----
(***************************************************************************)
(* Model of the crypto-price aggregation endpoint (main.go, api/index.go). *)
(*                                                                         *)
(* A Go string is a sequence of tokens: the characters of a ticker symbol  *)
(* and of a quoted price are one token each, so that strings.ToUpper and   *)
(* the %.2f formatting are computed character by character; the literal    *)
(* chunks of a format string are one token each. Sprintf is concatenation. *)
(* Go slices are 0-based, the sequences here are 1-based: slot i of the    *)
(* model is prices[i-1] of the code.                                       *)
(***************************************************************************)
EXTENDS Integers, Sequences, FiniteSets, TLC

\* ------------------------------------------------------------------ bounds
\* Number of distinct quotes an exchange may answer with.
NumQuotes == 1

\* ----------------------------------------------------------------- strings
LowerLetters == <<"a","b","c","d","e","f","g","h","i","j","k","l","m",
                  "n","o","p","q","r","s","t","u","v","w","x","y","z">>
UpperLetters == <<"A","B","C","D","E","F","G","H","I","J","K","L","M",
                  "N","O","P","Q","R","S","T","U","V","W","X","Y","Z">>
Digits == <<"0","1","2","3","4","5","6","7","8","9">>

LowerSet == {LowerLetters[k] : k \in 1..Len(LowerLetters)}

\* the uppercase letter of each lowercase letter
UpperOf == [c \in LowerSet |->
               UpperLetters[CHOOSE k \in 1..Len(LowerLetters) : LowerLetters[k] = c]]

\* unicode.ToUpper on one character
UpperChar(c) == IF c \in LowerSet THEN UpperOf[c] ELSE c

\* strings.ToUpper
ToUpper(s) == [k \in 1..Len(s) |-> UpperChar(s[k])]

\* %d of a non-negative integer
RECURSIVE Itoa(_)
Itoa(n) == IF n < 10 THEN <<Digits[n + 1]>>
           ELSE Itoa(n \div 10) \o <<Digits[(n % 10) + 1]>>

\* fmt.Sprintf("%.2f", price) of a non-negative float64 that is a whole number
\* of eighths (such a value is exact in binary, so a tie is a true tie and
\* strconv rounds it to even).
FormatFloat2(e) ==
    LET whole == e \div 8
        thou  == (e % 8) * 125
        down  == thou \div 10
        rest  == thou % 10
        cents == IF rest > 5 \/ (rest = 5 /\ down % 2 = 1) THEN down + 1 ELSE down
    IN  Itoa(whole) \o <<".">> \o <<Digits[(cents \div 10) + 1], Digits[(cents % 10) + 1]>>

\* ------------------------------------------------------------------ errors
\* A Go error value: nil, or a message. kind classifies the place of the
\* code that produced it.
Nil == [kind |-> "nil", msg |-> <<>>]
Err(kind, msg) == [kind |-> kind, msg |-> msg]

\* ------------------------------------------------- what the exchanges send
\* A JSON value found at the place an adapter reads its price from.
JString(s) == [t |-> "string", s |-> s, n |-> 0]
JNumber(n) == [t |-> "number", s |-> <<>>, n |-> n]

\* The k-th quote as a decimal string and as a float (in eighths).
QuoteString(k) == Itoa(42000 + k) \o <<".", "5", "0">>
QuoteFloat(k)  == 8 * (42000 + k) + 5

\* The outcome of http.Get: a transport error, or a status and a body. A body
\* is either not JSON (syntax = FALSE) or JSON in which vals lists, in document
\* order, the values found at the adapter's price field (for Kraken: the
\* elements of result[pair].c). diag is the code and message of a structured
\* error body (<<>>: the body has none).
TransportFailure ==
    [transport |-> TRUE, status |-> 0, syntax |-> TRUE, vals |-> <<>>, diag |-> <<>>]
Http(status, syntax, vals) ==
    [transport |-> FALSE, status |-> status, syntax |-> syntax, vals |-> vals, diag |-> <<>>]

\* A refusal: Binance answers 400 with {"code": -1121, "msg": "Invalid symbol."},
\* the model's other exchanges 500 with no structured body.
HttpError(name) ==
    IF name = "Binance"
    THEN [Http(400, TRUE, <<>>) EXCEPT !.diag = <<"-1121", "Invalid symbol.">>]
    ELSE Http(500, TRUE, <<>>)

Names == <<"Binance", "CoinGecko", "Kraken", "Coinbase">>

Bodies(name) ==
    IF name = "CoinGecko"
    THEN {<<>>} \cup {<<JNumber(QuoteFloat(k))>> : k \in 1..NumQuotes}
                \cup {<<JString(QuoteString(1))>>}
    ELSE {<<>>} \cup {<<JString(QuoteString(k))>> : k \in 1..NumQuotes}
                \cup {<<JString(QuoteString(1)), JNumber(7)>>}

Responses(name) ==
    {TransportFailure, HttpError(name)}
        \cup {Http(200, TRUE, v) : v \in Bodies(name)}

NoResponse ==
    [transport |-> FALSE, status |-> 0, syntax |-> TRUE, vals |-> <<>>, diag |-> <<>>]

\* Every answer of the model's exchanges.
AllResponses == UNION {Responses(Names[k]) : k \in 1..Len(Names)} \cup {Http(404, TRUE, <<>>)}

\* Request identifiers.
Requests == {1, 2}

\* Ticker symbols a request may carry.
Symbols == { <<>>, <<"b","t","c">>, <<"F","O","O">> }

VARIABLES
    impl,              \* which deployment runs: "main" (main.go) or "api" (api/index.go)
    reqs,              \* the requests of this run
    menu,              \* environment: the symbols each request may carry
    world,             \* environment: "any" (an exchange may answer anything),
                       \* "brief" (an exchange answers with a quote or is unreachable)
                       \* or "steady" (an exchange answers a URL it knows with a
                       \* quote, any other with 404)
    coinGeckoSymbols,  \* package-level translation table
    krakenSymbols,     \* package-level translation table
    hpc,               \* per request: position of the endpoint / aggregator
    symbol,            \* per request: the symbol parameter
    sources,           \* per request: the sources slice of fetchPricesConcurrently
    spawned,           \* per request: number of iterations of the range loop done
    wg,                \* per request: the WaitGroup counter
    mu,                \* per request: the Mutex (0 unlocked, else the task holding it)
    prices,            \* per request: the prices slice
    tpc,               \* per request and task: position of the goroutine
    net,               \* per request and task: the HTTP exchange of the adapter
    local,             \* per request and task: what Fetch returned, and price
    report,            \* per request: the slice fetchPricesConcurrently returned
    status,            \* per request: HTTP status written (0: none yet)
    body               \* per request: HTTP body written

vars == <<impl, reqs, menu, world, coinGeckoSymbols, krakenSymbols, hpc, symbol, sources, spawned,
          wg, mu, prices, tpc, net, local, report, status, body>>

\* ------------------------------------------------------------- fetchPrice
\* json.Decoder.Decode into a string field: every string value found assigns
\* the field, a value of another type is recorded as an error and skipped.
DecodeString(vals) ==
    LET strs == SelectSeq(vals, LAMBDA v : v.t = "string")
    IN  [str |-> IF strs = <<>> THEN <<>> ELSE strs[Len(strs)].s,
         err |-> IF \E k \in 1..Len(vals) : vals[k].t # "string"
                 THEN Err("DecodeError", <<"json: cannot unmarshal number into string">>)
                 ELSE Nil]

\* ... into a float64 field (map[string]map[string]float64; a missing key
\* reads as 0 at the lookup).
DecodeFloat(vals) ==
    LET nums == SelectSeq(vals, LAMBDA v : v.t = "number")
    IN  [num |-> IF nums = <<>> THEN 0 ELSE nums[Len(nums)].n,
         err |-> IF \E k \in 1..Len(vals) : vals[k].t # "number"
                 THEN Err("DecodeError", <<"json: cannot unmarshal string into float64">>)
                 ELSE Nil]

\* ... into a []string field: an element of another type stays "".
DecodeStrings(vals) ==
    [list |-> [k \in 1..Len(vals) |-> IF vals[k].t = "string" THEN vals[k].s ELSE <<>>],
     err  |-> IF \E k \in 1..Len(vals) : vals[k].t # "string"
              THEN Err("DecodeError", <<"json: cannot unmarshal number into string">>)
              ELSE Nil]

\* fetchPrice(url, target) once http.Get has come back with resp; decoded is
\* what Decode makes of the body for this target. Returns the error; the
\* target is written only if the body is decoded.
fetchPrice(resp, decoded) ==
    IF resp.transport
    THEN Err("TransportError", <<"Get: dial tcp: connection refused">>)
    ELSE IF resp.status # 200
    THEN Err("RemoteError", <<"error fetching price, status code: ">> \o Itoa(resp.status))
    ELSE IF ~resp.syntax
    THEN Err("DecodeError", <<"invalid character">>)
    ELSE decoded.err

\* TRUE iff Decode ran on a syntactically valid body, and so wrote the target.
Decoded(resp) == ~resp.transport /\ resp.status = 200 /\ resp.syntax

\* --------------------------------------------------------------- adapters
\* Each adapter is two operators: XRequest(symbol) is the part up to the
\* call of http.Get (ok = FALSE: it returns before any call), and
\* getPriceFromX(symbol, resp) is what the adapter returns.
BinanceRequest(sym) ==
    [ok  |-> TRUE,
     url |-> <<"https://api.binance.com/api/v3/ticker/price?symbol=">>
                \o ToUpper(sym) \o <<"USDT">>]

\* main.go: result.Price is returned together with the error
getPriceFromBinance(sym, resp) ==
    LET d   == DecodeString(resp.vals)
        err == fetchPrice(resp, d)
    IN  [price |-> IF Decoded(resp) THEN d.str ELSE <<>>, err |-> err]

\* api/index.go: "" is returned with an error
getPriceFromBinanceApi(sym, resp) ==
    LET d   == DecodeString(resp.vals)
        err == fetchPrice(resp, d)
    IN  IF err # Nil THEN [price |-> <<>>, err |-> err]
        ELSE [price |-> d.str, err |-> Nil]

\* (variant: the table is read with the symbol as typed)
CoinGeckoRequestRaw(sym) ==
    LET ok == sym \in DOMAIN coinGeckoSymbols
    IN  [ok  |-> ok,
         url |-> IF ok
                 THEN <<"https://api.coingecko.com/api/v3/simple/price?ids=">>
                        \o coinGeckoSymbols[sym] \o <<"&vs_currencies=usd">>
                 ELSE <<>>]

CoinGeckoRequest(sym) ==
    LET key == ToUpper(sym)
        ok  == key \in DOMAIN coinGeckoSymbols
    IN  [ok  |-> ok,
         url |-> IF ok
                 THEN <<"https://api.coingecko.com/api/v3/simple/price?ids=">>
                        \o coinGeckoSymbols[key] \o <<"&vs_currencies=usd">>
                 ELSE <<>>]

getPriceFromCoinGecko(sym, resp) ==
    IF ~CoinGeckoRequest(sym).ok
    THEN [price |-> <<>>, err |-> Err("UnsupportedSymbol", <<"unknown symbol for CoinGecko: ">> \o sym)]
    ELSE LET d   == DecodeFloat(resp.vals)
             err == fetchPrice(resp, d)
         IN  IF err # Nil THEN [price |-> <<>>, err |-> err]
             ELSE [price |-> FormatFloat2(d.num), err |-> Nil]

\* (variant: the request is built without testing ok)
KrakenRequestUnchecked(sym) ==
    LET key == ToUpper(sym)
    IN  [ok  |-> TRUE,
         url |-> <<"https://api.kraken.com/0/public/Ticker?pair=">>
                    \o (IF key \in DOMAIN krakenSymbols THEN krakenSymbols[key] ELSE <<>>)]

KrakenRequest(sym) ==
    LET key == ToUpper(sym)
        ok  == key \in DOMAIN krakenSymbols
    IN  [ok  |-> ok,
         url |-> IF ok
                 THEN <<"https://api.kraken.com/0/public/Ticker?pair=">> \o krakenSymbols[key]
                 ELSE <<>>]

getPriceFromKraken(sym, resp) ==
    IF ~KrakenRequest(sym).ok
    THEN [price |-> <<>>, err |-> Err("UnsupportedSymbol", <<"unknown symbol for Kraken: ">> \o sym)]
    ELSE LET d   == DecodeStrings(resp.vals)
             err == fetchPrice(resp, d)
         IN  IF err # Nil THEN [price |-> <<>>, err |-> err]
             ELSE IF Len(d.list) = 0
             THEN [price |-> <<>>, err |-> Err("PriceNotFound", <<"price not found for ">> \o sym)]
             ELSE [price |-> d.list[1], err |-> Nil]

CoinbaseRequest(sym) ==
    [ok  |-> TRUE,
     url |-> <<"https://api.coinbase.com/v2/prices/">> \o ToUpper(sym) \o <<"-USD/spot">>]

\* main.go: result.Data.Amount is returned together with the error
getPriceFromCoinbase(sym, resp) ==
    LET d   == DecodeString(resp.vals)
        err == fetchPrice(resp, d)
    IN  [price |-> IF Decoded(resp) THEN d.str ELSE <<>>, err |-> err]

\* api/index.go: "" is returned with an error
getPriceFromCoinbaseApi(sym, resp) ==
    LET d   == DecodeString(resp.vals)
        err == fetchPrice(resp, d)
    IN  IF err # Nil THEN [price |-> <<>>, err |-> err]
        ELSE [price |-> d.str, err |-> Nil]

\* source.Fetch(source.Symbol) up to the network call, for the adapter
\* registered under name
FetchRequest(name, sym) ==
    CASE name = "Binance"   -> BinanceRequest(sym)
      [] name = "CoinGecko" -> CoinGeckoRequest(sym)
      [] name = "Kraken"    -> KrakenRequest(sym)
      [] name = "Coinbase"  -> CoinbaseRequest(sym)

\* source.Fetch(source.Symbol): what the adapter returns
Fetch(name, sym, resp) ==
    CASE name = "Binance"   -> IF impl = "main" THEN getPriceFromBinance(sym, resp)
                                                ELSE getPriceFromBinanceApi(sym, resp)
      [] name = "CoinGecko" -> getPriceFromCoinGecko(sym, resp)
      [] name = "Kraken"    -> getPriceFromKraken(sym, resp)
      [] name = "Coinbase"  -> IF impl = "main" THEN getPriceFromCoinbase(sym, resp)
                                                ELSE getPriceFromCoinbaseApi(sym, resp)

\* ------------------------------------------------------------- aggregator
ErrorPlaceholder == <<"Error fetching price">>

\* the zero value of APIResponse
ZeroResponse == [Source |-> <<>>, Price |-> <<>>]

\* sources := []struct{Name, Fetch, Symbol}{...}; Fetch is named by Name
MakeSources(sym) == [k \in 1..Len(Names) |-> [Name |-> Names[k], Symbol |-> sym]]

\* fmt.Sprintf("%s (%s)", source.Name, strings.ToUpper(symbol))
SourceLabel(name, sym) == <<name, " (">> \o ToUpper(sym) \o <<")">>

\* (variant: the test on err inverted)
TaskPriceInverted(price, err) == IF err = Nil THEN ErrorPlaceholder ELSE price

\* (variant: the price is left as the adapter returned it)
TaskPriceKept(price, err) == price

\* if err != nil { price = "Error fetching price" }
TaskPrice(price, err) == IF err # Nil THEN ErrorPlaceholder ELSE price

Tasks == 1..Len(Names)

NoExchange == [url |-> <<>>, calls |-> 0, got |-> FALSE, resp |-> NoResponse]
NoLocal    == [retPrice |-> <<>>, err |-> Nil, price |-> <<>>]

InitWith(rs, impls, m, w) ==
    /\ impl \in impls
    /\ reqs = rs
    /\ menu = m
    /\ world = w
    /\ coinGeckoSymbols = (<<"B","T","C">> :> <<"bitcoin">>) @@ (<<"E","T","H">> :> <<"ethereum">>)
                          @@ (<<"S","O","L">> :> <<"solana">>)
                          @@ (<<"D","O","G","E">> :> <<"dogecoin">>)
                          @@ (<<"S","H","I","B">> :> <<"shiba-inu">>)
    /\ krakenSymbols = (<<"B","T","C">> :> <<"XXBTZUSD">>) @@ (<<"E","T","H">> :> <<"XETHZUSD">>)
                       @@ (<<"S","O","L">> :> <<"SOLUSD">>)
                       @@ (<<"D","O","G","E">> :> <<"XDGUSD">>)
                       @@ (<<"S","H","I","B">> :> <<"SHIBUSD">>)
    /\ hpc     = [r \in rs |-> "idle"]
    /\ symbol  = [r \in rs |-> <<>>]
    /\ sources = [r \in rs |-> <<>>]
    /\ spawned = [r \in rs |-> 0]
    /\ wg      = [r \in rs |-> 0]
    /\ mu      = [r \in rs |-> 0]
    /\ prices  = [r \in rs |-> <<>>]
    /\ tpc     = [r \in rs |-> [i \in Tasks |-> "none"]]
    /\ net     = [r \in rs |-> [i \in Tasks |-> NoExchange]]
    /\ local   = [r \in rs |-> [i \in Tasks |-> NoLocal]]
    /\ report  = [r \in rs |-> <<>>]
    /\ status  = [r \in rs |-> 0]
    /\ body    = [r \in rs |-> [text |-> <<>>, prices |-> <<>>]]

Init == InitWith({1}, {"main", "api"}, [r \in {1} |-> Symbols], "any")

tables == <<impl, reqs, menu, world, coinGeckoSymbols, krakenSymbols>>

\* fetchPricesConcurrently(symbol) is entered: sources and prices are made
Enter(r, sym) ==
    /\ symbol'  = [symbol EXCEPT ![r] = sym]
    /\ sources' = [sources EXCEPT ![r] = MakeSources(sym)]
    /\ prices'  = [prices EXCEPT ![r] = [k \in 1..Len(Names) |-> ZeroResponse]]
    /\ hpc'     = [hpc EXCEPT ![r] = "spawn"]
    /\ UNCHANGED <<tables, spawned, wg, mu, tpc, net, local, report, status, body>>

\* main.go: gin matches /price/:symbol only with a non-empty segment; the
\* handler calls the aggregator with c.Param("symbol")
MainHandler(r, sym) ==
    /\ r \in reqs
    /\ impl = "main"
    /\ hpc[r] = "idle"
    /\ sym \in menu[r]
    /\ sym # <<>>
    /\ Enter(r, sym)

\* main.go: GET /price/ matches no route, gin answers 404 itself
MainNoRoute(r) ==
    /\ r \in reqs
    /\ impl = "main"
    /\ hpc[r] = "idle"
    /\ <<>> \in menu[r]
    /\ status' = [status EXCEPT ![r] = 404]
    /\ body'   = [body EXCEPT ![r] = [text |-> <<"404 page not found">>, prices |-> <<>>]]
    /\ hpc'    = [hpc EXCEPT ![r] = "done"]
    /\ UNCHANGED <<tables, symbol, sources, spawned, wg, mu, prices, tpc, net, local, report>>

\* api/index.go Handler: the symbol is the path after /api/
Handler(r, sym) ==
    /\ r \in reqs
    /\ impl = "api"
    /\ hpc[r] = "idle"
    /\ sym \in menu[r]
    /\ IF sym = <<>>
       THEN /\ symbol' = [symbol EXCEPT ![r] = sym]
            /\ status' = [status EXCEPT ![r] = 400]
            /\ body'   = [body EXCEPT ![r] = [text |-> <<"Missing symbol">>, prices |-> <<>>]]
            /\ hpc'    = [hpc EXCEPT ![r] = "done"]
            /\ UNCHANGED <<tables, sources, spawned, wg, mu, prices, tpc, net,
                           local, report>>
       ELSE Enter(r, sym)

\* one iteration of the range loop: wg.Add(1); go func(i, source)
Spawn(r) ==
    /\ r \in reqs
    /\ hpc[r] = "spawn"
    /\ LET i == spawned[r] + 1 IN
        /\ spawned' = [spawned EXCEPT ![r] = i]
        /\ wg'      = [wg EXCEPT ![r] = @ + 1]
        /\ tpc'     = [tpc EXCEPT ![r][i] = "start"]
        /\ hpc'     = [hpc EXCEPT ![r] = IF i = Len(sources[r]) THEN "wait" ELSE "spawn"]
    /\ UNCHANGED <<tables, symbol, sources, mu, prices, net, local, report, status, body>>

\* (variant: the adapters are called one after the other - a task starts its
\* Fetch only when every adapter registered before it has returned)
TaskFetchSequential(r, i) ==
    /\ r \in reqs
    /\ tpc[r][i] = "start"
    /\ \A j \in 1..(i - 1) : tpc[r][j] \in {"fetched", "locked", "done"}
    /\ LET src == sources[r][i]
           rq  == FetchRequest(src.Name, src.Symbol)
       IN  IF rq.ok
           THEN /\ net' = [net EXCEPT ![r][i] = [@ EXCEPT !.url = rq.url, !.calls = @ + 1]]
                /\ tpc' = [tpc EXCEPT ![r][i] = "calling"]
                /\ UNCHANGED local
           ELSE LET ret == Fetch(src.Name, src.Symbol, NoResponse) IN
                /\ local' = [local EXCEPT ![r][i] =
                                [retPrice |-> ret.price, err |-> ret.err,
                                 price |-> TaskPrice(ret.price, ret.err)]]
                /\ tpc' = [tpc EXCEPT ![r][i] = "fetched"]
                /\ UNCHANGED net
    /\ UNCHANGED <<tables, hpc, symbol, sources, spawned, wg, mu, prices, report, status, body>>

\* (variant: an adapter that finds no entry stores one - the symbol itself - in
\* its table before it returns)
TaskFetchCaching(r, i) ==
    /\ r \in reqs
    /\ tpc[r][i] = "start"
    /\ LET src == sources[r][i]
           rq  == FetchRequest(src.Name, src.Symbol)
           key == ToUpper(src.Symbol)
       IN  IF rq.ok
           THEN /\ net' = [net EXCEPT ![r][i] = [@ EXCEPT !.url = rq.url, !.calls = @ + 1]]
                /\ tpc' = [tpc EXCEPT ![r][i] = "calling"]
                /\ UNCHANGED <<local, coinGeckoSymbols, krakenSymbols>>
           ELSE LET ret == Fetch(src.Name, src.Symbol, NoResponse) IN
                /\ local' = [local EXCEPT ![r][i] =
                                [retPrice |-> ret.price, err |-> ret.err,
                                 price |-> TaskPrice(ret.price, ret.err)]]
                /\ tpc' = [tpc EXCEPT ![r][i] = "fetched"]
                /\ coinGeckoSymbols' = IF src.Name = "CoinGecko"
                                       THEN (key :> key) @@ coinGeckoSymbols
                                       ELSE coinGeckoSymbols
                /\ krakenSymbols' = IF src.Name = "Kraken"
                                    THEN (key :> key) @@ krakenSymbols
                                    ELSE krakenSymbols
                /\ UNCHANGED net
    /\ UNCHANGED <<impl, reqs, menu, world, hpc, symbol, sources, spawned, wg, mu, prices,
                   report, status, body>>

\* the goroutine calls source.Fetch(source.Symbol): the adapter either returns
\* at once (no table entry) or issues its http.Get
TaskFetch(r, i) ==
    /\ r \in reqs
    /\ tpc[r][i] = "start"
    /\ LET src == sources[r][i]
           rq  == FetchRequest(src.Name, src.Symbol)
       IN  IF rq.ok
           THEN /\ net' = [net EXCEPT ![r][i] = [@ EXCEPT !.url = rq.url, !.calls = @ + 1]]
                /\ tpc' = [tpc EXCEPT ![r][i] = "calling"]
                /\ UNCHANGED local
           ELSE LET ret == Fetch(src.Name, src.Symbol, NoResponse) IN
                /\ local' = [local EXCEPT ![r][i] =
                                [retPrice |-> ret.price, err |-> ret.err,
                                 price |-> TaskPrice(ret.price, ret.err)]]
                /\ tpc' = [tpc EXCEPT ![r][i] = "fetched"]
                /\ UNCHANGED net
    /\ UNCHANGED <<tables, hpc, symbol, sources, spawned, wg, mu, prices, report, status, body>>

\* What the exchange behind adapter name may answer to a GET of url.
Offered(name, url) ==
    IF world = "any" THEN Responses(name)
    ELSE IF world = "brief"
    THEN {TransportFailure,
          Http(200, TRUE, IF name = "CoinGecko" THEN <<JNumber(QuoteFloat(1))>>
                                                ELSE <<JString(QuoteString(1))>>)}
    ELSE IF url = FetchRequest(name, <<"B","T","C">>).url
    THEN {Http(200, TRUE, IF name = "CoinGecko" THEN <<JNumber(QuoteFloat(1))>>
                                                ELSE <<JString(QuoteString(1))>>)}
    ELSE {Http(404, TRUE, <<>>)}

\* (variant: an adapter whose call failed tries once more)
TaskReceiveRetry(r, i, resp) ==
    /\ r \in reqs
    /\ tpc[r][i] = "calling"
    /\ resp \in Offered(Names[i], net[r][i].url)
    /\ LET src == sources[r][i]
           ret == Fetch(src.Name, src.Symbol, resp)
       IN  IF ret.err # Nil /\ net[r][i].calls < 2
           THEN /\ net' = [net EXCEPT ![r][i] = [@ EXCEPT !.got = TRUE, !.resp = resp]]
                /\ tpc' = [tpc EXCEPT ![r][i] = "start"]
                /\ UNCHANGED local
           ELSE /\ net'   = [net EXCEPT ![r][i] = [@ EXCEPT !.got = TRUE, !.resp = resp]]
                /\ local' = [local EXCEPT ![r][i] =
                                [retPrice |-> ret.price, err |-> ret.err,
                                 price |-> TaskPrice(ret.price, ret.err)]]
                /\ tpc' = [tpc EXCEPT ![r][i] = "fetched"]
    /\ UNCHANGED <<tables, hpc, symbol, sources, spawned, wg, mu, prices, report, status, body>>

\* http.Get comes back with resp; the adapter returns, the goroutine replaces
\* the price by the placeholder on error
TaskReceive(r, i, resp) ==
    /\ r \in reqs
    /\ tpc[r][i] = "calling"
    /\ resp \in Offered(Names[i], net[r][i].url)
    /\ LET src == sources[r][i]
           ret == Fetch(src.Name, src.Symbol, resp)
       IN  /\ net'   = [net EXCEPT ![r][i] = [@ EXCEPT !.got = TRUE, !.resp = resp]]
           /\ local' = [local EXCEPT ![r][i] =
                           [retPrice |-> ret.price, err |-> ret.err,
                            price |-> TaskPrice(ret.price, ret.err)]]
    /\ tpc' = [tpc EXCEPT ![r][i] = "fetched"]
    /\ UNCHANGED <<tables, hpc, symbol, sources, spawned, wg, mu, prices, report, status, body>>

\* mu.Lock()
TaskLock(r, i) ==
    /\ r \in reqs
    /\ tpc[r][i] = "fetched"
    /\ mu[r] = 0
    /\ mu'  = [mu EXCEPT ![r] = i]
    /\ tpc' = [tpc EXCEPT ![r][i] = "locked"]
    /\ UNCHANGED <<tables, hpc, symbol, sources, spawned, wg, prices, net, local, report,
                   status, body>>

\* (variant: one prices slice for the whole process - the slot written is that
\* of the oldest request that has a slice)
TaskWriteShared(r, i) ==
    /\ r \in reqs
    /\ tpc[r][i] = "locked"
    /\ LET q == CHOOSE q \in reqs : /\ prices[q] # <<>>
                                    /\ \A o \in reqs : prices[o] # <<>> => q <= o
       IN  prices' = [prices EXCEPT ![q][i] =
                        [Source |-> SourceLabel(sources[r][i].Name, symbol[r]),
                         Price  |-> local[r][i].price]]
    /\ mu'  = [mu EXCEPT ![r] = 0]
    /\ wg'  = [wg EXCEPT ![r] = @ - 1]
    /\ tpc' = [tpc EXCEPT ![r][i] = "done"]
    /\ UNCHANGED <<tables, hpc, symbol, sources, spawned, net, local, report, status, body>>

\* (variant: append on completion - the entry goes to the first free slot)
TaskWriteAppend(r, i) ==
    /\ r \in reqs
    /\ tpc[r][i] = "locked"
    /\ LET k == CHOOSE k \in Tasks : /\ prices[r][k] = ZeroResponse
                                     /\ \A j \in 1..(k - 1) : prices[r][j] # ZeroResponse
       IN  prices' = [prices EXCEPT ![r][k] =
                        [Source |-> SourceLabel(sources[r][i].Name, symbol[r]),
                         Price  |-> local[r][i].price]]
    /\ mu'  = [mu EXCEPT ![r] = 0]
    /\ wg'  = [wg EXCEPT ![r] = @ - 1]
    /\ tpc' = [tpc EXCEPT ![r][i] = "done"]
    /\ UNCHANGED <<tables, hpc, symbol, sources, spawned, net, local, report, status, body>>

\* (variant: the closure reads the loop's own i and source instead of its
\* parameters - the slot written is that of the latest iteration spawned)
TaskWriteCaptured(r, i) ==
    /\ r \in reqs
    /\ tpc[r][i] = "locked"
    /\ LET k == spawned[r]
       IN  prices' = [prices EXCEPT ![r][k] =
                        [Source |-> SourceLabel(sources[r][k].Name, symbol[r]),
                         Price  |-> local[r][i].price]]
    /\ mu'  = [mu EXCEPT ![r] = 0]
    /\ wg'  = [wg EXCEPT ![r] = @ - 1]
    /\ tpc' = [tpc EXCEPT ![r][i] = "done"]
    /\ UNCHANGED <<tables, hpc, symbol, sources, spawned, net, local, report, status, body>>

\* (variant: the mutex is not released after the write)
TaskWriteNoUnlock(r, i) ==
    /\ r \in reqs
    /\ tpc[r][i] = "locked"
    /\ prices' = [prices EXCEPT ![r][i] =
                    [Source |-> SourceLabel(sources[r][i].Name, symbol[r]),
                     Price  |-> local[r][i].price]]
    /\ wg'  = [wg EXCEPT ![r] = @ - 1]
    /\ tpc' = [tpc EXCEPT ![r][i] = "done"]
    /\ UNCHANGED <<tables, hpc, symbol, sources, spawned, mu, net, local, report, status, body>>

\* prices[i] = APIResponse{Source: ..., Price: price}; mu.Unlock(); the goroutine
\* returns and the deferred wg.Done() runs
TaskWrite(r, i) ==
    /\ r \in reqs
    /\ tpc[r][i] = "locked"
    /\ prices' = [prices EXCEPT ![r][i] =
                    [Source |-> SourceLabel(sources[r][i].Name, symbol[r]),
                     Price  |-> local[r][i].price]]
    /\ mu'  = [mu EXCEPT ![r] = 0]
    /\ wg'  = [wg EXCEPT ![r] = @ - 1]
    /\ tpc' = [tpc EXCEPT ![r][i] = "done"]
    /\ UNCHANGED <<tables, hpc, symbol, sources, spawned, net, local, report, status, body>>

\* (variant: no join - the slice is returned without waiting)
WaitNoJoin(r) ==
    /\ r \in reqs
    /\ hpc[r] = "wait"
    /\ report' = [report EXCEPT ![r] = prices[r]]
    /\ hpc'    = [hpc EXCEPT ![r] = "returned"]
    /\ UNCHANGED <<tables, symbol, sources, spawned, wg, mu, prices, tpc, net, local,
                   status, body>>

\* (variant: a deadline - the join gives up while a call is still in flight)
WaitTimeout(r) ==
    /\ r \in reqs
    /\ hpc[r] = "wait"
    /\ wg[r] = 0 \/ \E i \in Tasks : tpc[r][i] = "calling"
    /\ report' = [report EXCEPT ![r] = prices[r]]
    /\ hpc'    = [hpc EXCEPT ![r] = "returned"]
    /\ UNCHANGED <<tables, symbol, sources, spawned, wg, mu, prices, tpc, net, local,
                   status, body>>

\* wg.Wait() returns; return prices
Wait(r) ==
    /\ r \in reqs
    /\ hpc[r] = "wait"
    /\ wg[r] = 0
    /\ report' = [report EXCEPT ![r] = prices[r]]
    /\ hpc'    = [hpc EXCEPT ![r] = "returned"]
    /\ UNCHANGED <<tables, symbol, sources, spawned, wg, mu, prices, tpc, net, local,
                   status, body>>

\* (variant: the status is derived from the adapters' failures)
RespondByOutcome(r) ==
    /\ r \in reqs
    /\ hpc[r] = "returned"
    /\ status' = [status EXCEPT ![r] =
                    IF \A k \in 1..Len(report[r]) : report[r][k].Price = ErrorPlaceholder
                    THEN 502 ELSE 200]
    /\ body'   = [body EXCEPT ![r] = [text |-> <<>>, prices |-> report[r]]]
    /\ hpc'    = [hpc EXCEPT ![r] = "done"]
    /\ UNCHANGED <<tables, symbol, sources, spawned, wg, mu, prices, tpc, net, local, report>>

\* c.JSON(http.StatusOK, gin.H{"prices": prices}) /
\* json.NewEncoder(w).Encode(gin.H{"prices": prices})
Respond(r) ==
    /\ r \in reqs
    /\ hpc[r] = "returned"
    /\ status' = [status EXCEPT ![r] = 200]
    /\ body'   = [body EXCEPT ![r] = [text |-> <<>>, prices |-> report[r]]]
    /\ hpc'    = [hpc EXCEPT ![r] = "done"]
    /\ UNCHANGED <<tables, symbol, sources, spawned, wg, mu, prices, tpc, net, local, report>>

\* the gin server of main.go
NextMain ==
    \/ \E r \in Requests, sym \in Symbols : MainHandler(r, sym)
    \/ \E r \in Requests : MainNoRoute(r)
    \/ \E r \in Requests : Spawn(r)
    \/ \E r \in Requests, i \in Tasks : TaskFetch(r, i)
    \/ \E r \in Requests, i \in Tasks, resp \in AllResponses : TaskReceive(r, i, resp)
    \/ \E r \in Requests, i \in Tasks : TaskLock(r, i)
    \/ \E r \in Requests, i \in Tasks : TaskWrite(r, i)
    \/ \E r \in Requests : Wait(r)
    \/ \E r \in Requests : Respond(r)

\* either deployment
Next ==
    \/ NextMain
    \/ \E r \in Requests, sym \in Symbols : Handler(r, sym)

Spec == Init /\ [][Next]_vars

\* Two requests served by one gin server, in any interleaving: the first asks
\* for a symbol every exchange knows, the second for none or for an unknown one.
InitPair ==
    InitWith({1, 2}, {"main"}, (1 :> {<<"b","t","c">>}) @@ (2 :> {<<>>, <<"F","O","O">>}),
             "steady")

SpecPair == InitPair /\ [][NextMain]_vars

\* One request to either deployment: for no symbol or an unknown one, the
\* exchanges answering anything; or for a symbol every exchange knows, each
\* exchange answering with a quote or being unreachable.
Served == {1}

InitFair ==
    \/ InitWith(Served, {"main", "api"}, [r \in Served |-> {<<>>, <<"F","O","O">>}], "any")
    \/ InitWith(Served, {"main", "api"}, [r \in Served |-> {<<"b","t","c">>}], "brief")

\* The Go scheduler runs every runnable goroutine sooner or later: the loop of
\* fetchPricesConcurrently, each task's steps and the join are weakly fair (a
\* task waiting in mu.Lock() is passed at most three times, each other task
\* locking once). That every http.Get comes back is the hypothesis under which
\* termination is claimed: the return of a call in flight is weakly fair too.
Fairness ==
    \A r \in Served :
        /\ WF_vars(Spawn(r))
        /\ WF_vars(Wait(r))
        /\ \A i \in Tasks :
            /\ WF_vars(TaskFetch(r, i))
            /\ WF_vars(\E resp \in AllResponses : TaskReceive(r, i, resp))
            /\ WF_vars(TaskLock(r, i))
            /\ WF_vars(TaskWrite(r, i))

SpecFair == InitFair /\ [][Next]_vars /\ Fairness

\* ================================================================ claims
\* the aggregator was called for request r
Invoked(r) == sources[r] # <<>>
\* fetchPricesConcurrently has returned for request r
Returned(r) == Invoked(r) /\ hpc[r] \in {"returned", "done"}
\* adapter i of request r has returned an error
Failed(r, i) == tpc[r][i] \in {"fetched", "locked", "done"} /\ local[r][i].err # Nil
\* adapter i of request r has returned without error
Succeeded(r, i) == tpc[r][i] \in {"fetched", "locked", "done"} /\ local[r][i].err = Nil

RegisteredOrder == <<"Binance", "CoinGecko", "Kraken", "Coinbase">>

\* C1: whatever the adapters' outcomes and the order in which the tasks
\* complete, the report fetchPricesConcurrently returns has exactly 4 entries
\* and entry k is labelled "<k-th exchange> (<SYMBOL>)", in the order Binance,
\* CoinGecko, Kraken, Coinbase.
C1_FixedOrderReport ==
    \A r \in reqs :
        Returned(r) =>
            /\ Len(report[r]) = 4
            /\ \A k \in 1..4 :
                report[r][k].Source = <<RegisteredOrder[k], " (">> \o ToUpper(symbol[r]) \o <<")">>

\* C1 witness: a returned report of a request in which some adapters failed
\* and others succeeded.
C1_Witness ==
    \E r \in reqs :
        /\ Returned(r)
        /\ symbol[r] = <<"b","t","c">>
        /\ Failed(r, 1) /\ Succeeded(r, 2) /\ Failed(r, 3) /\ Succeeded(r, 4)

\* C2: fetchPricesConcurrently returns only after every task has finished and
\* written its slot: once it has returned, all four tasks are done and no
\* slot of the returned report is the zero value.
C2_ReturnsAfterAll ==
    \A r \in reqs :
        Returned(r) =>
            \A i \in Tasks : /\ tpc[r][i] = "done"
                             /\ Len(report[r]) = Len(Names)
                             /\ report[r][i].Source # <<>>

\* C2 witness: the aggregator has just returned (the endpoint has not answered
\* yet) and all four slots are filled.
C2_Witness ==
    \E r \in reqs :
        /\ hpc[r] = "returned"
        /\ \A i \in Tasks : report[r][i] # ZeroResponse

\* C3: if exactly one adapter fails and the other three succeed, the report
\* carries the placeholder at the failing adapter's position and nowhere else,
\* and every other entry carries the price its own adapter returned.
C3_OneFailureIsolated ==
    \A r \in reqs : \A f \in Tasks :
        (Returned(r) /\ Failed(r, f) /\ \A i \in Tasks \ {f} : Succeeded(r, i)) =>
            /\ {k \in 1..Len(report[r]) : report[r][k].Price = ErrorPlaceholder} = {f}
            /\ \A k \in Tasks \ {f} : report[r][k].Price = local[r][k].retPrice

\* C3 witness: Kraken alone failed, and the three others returned a quote.
C3_Witness ==
    \E r \in reqs :
        /\ Returned(r)
        /\ Failed(r, 3)
        /\ \A i \in Tasks \ {3} : Succeeded(r, i) /\ local[r][i].retPrice # <<>>

\* C4: a request with a non-empty symbol is answered 200 with the full report
\* in the "prices" envelope, whatever the adapters' outcomes; no other status
\* is ever written for it.
C4_AlwaysOK ==
    \A r \in reqs :
        /\ symbol[r] # <<>> => status[r] \in {0, 200}
        /\ (hpc[r] = "done" /\ symbol[r] # <<>>) =>
              /\ status[r] = 200
              /\ body[r].text = <<>>
              /\ body[r].prices = report[r]
              /\ Len(body[r].prices) = 4

\* C4 witness: the endpoint has answered a request all four adapters of which
\* failed.
C4_Witness ==
    \E r \in reqs :
        /\ hpc[r] = "done"
        /\ \A i \in Tasks : Failed(r, i) /\ body[r].prices[i].Price = ErrorPlaceholder

\* C5: a request with an empty symbol is answered 400 and the aggregator is not
\* invoked for it (no task started, no network call), in both deployments.
C5_EmptySymbolIs400 ==
    \A r \in reqs :
        (hpc[r] = "done" /\ ~Invoked(r)) =>
            /\ status[r] = 400
            /\ \A i \in Tasks : tpc[r][i] = "none" /\ net[r][i].calls = 0

\* Spellings of the symbols that differ in case only.
CaseVariants == { <<"b","t","c">>, <<"B","T","C">>, <<"B","t","c">>,
                  <<"F","O","O">>, <<"f","o","o">> }

\* What request r has done so far is what the code does for the spelling v of
\* its symbol, given the answers r received: same table lookup, same request
\* sent, same entry written. (The adapters and the label are functions of the
\* symbol and the answer, so the aggregation of v with the same answers is the
\* run of r with v in place of symbol[r].)
SameAs(r, v) ==
    \A i \in Tasks :
        LET rq  == FetchRequest(Names[i], v)
            ret == Fetch(Names[i], v, net[r][i].resp)
        IN  /\ tpc[r][i] \notin {"none", "start"} =>
                /\ net[r][i].calls = (IF rq.ok THEN 1 ELSE 0)
                /\ net[r][i].url = rq.url
            /\ tpc[r][i] = "done" =>
                /\ prices[r][i].Source = <<Names[i], " (">> \o ToUpper(v) \o <<")">>
                /\ prices[r][i].Source = SourceLabel(Names[i], v)
                /\ prices[r][i].Price = TaskPrice(ret.price, ret.err)
                /\ \A k \in 3..Len(prices[r][i].Source) :
                      prices[r][i].Source[k] \notin LowerSet

\* C6 (as stated): the aggregations of a symbol and of any other spelling of it
\* agree in labels, dispatch and report, and the symbol is normalized to
\* uppercase once, before dispatch: every task is handed the uppercase symbol.
C6_NormalizedBeforeDispatch ==
    \A r \in reqs :
        Invoked(r) =>
            /\ \A v \in CaseVariants \ {symbol[r]} :
                  ToUpper(v) = ToUpper(symbol[r]) => SameAs(r, v)
            /\ \A i \in Tasks : sources[r][i].Symbol = ToUpper(symbol[r])

\* C6 (amended): the aggregations of a symbol and of any other spelling of it
\* agree in labels, dispatch and report; every task is handed the symbol as it
\* was typed, and the uppercase form is computed at each use (each adapter's
\* lookup or URL, each label).
C6_CaseInsensitive ==
    \A r \in reqs :
        Invoked(r) =>
            /\ \A v \in CaseVariants \ {symbol[r]} :
                  ToUpper(v) = ToUpper(symbol[r]) => SameAs(r, v)
            /\ \A i \in Tasks : sources[r][i].Symbol = symbol[r]

\* C6 witness: a lowercase symbol, a table lookup that succeeded under its
\* uppercase form, and the entry written.
C6_Witness ==
    \E r \in reqs :
        /\ symbol[r] = <<"b","t","c">>
        /\ tpc[r][2] = "done"
        /\ net[r][2].url = <<"https://api.coingecko.com/api/v3/simple/price?ids=", "bitcoin",
                             "&vs_currencies=usd">>
        /\ prices[r][2] = [Source |-> <<"CoinGecko", " (", "B", "T", "C", ")">>,
                           Price  |-> <<"4","2","0","0","1",".","6","2">>]

\* C7: for a symbol in neither table, CoinGecko and Kraken fail with
\* UnsupportedSymbol without any network call, while Binance and Coinbase issue
\* their call and fail, if they fail, by what comes back from it.
C7_UnknownSymbol ==
    \A r \in reqs :
        (Invoked(r) /\ ToUpper(symbol[r]) \notin (DOMAIN coinGeckoSymbols \cup DOMAIN krakenSymbols)) =>
            \A i \in Tasks :
                LET started == tpc[r][i] \notin {"none", "start"} IN
                IF Names[i] \in {"CoinGecko", "Kraken"}
                THEN /\ net[r][i].calls = 0
                     /\ started => local[r][i].err.kind = "UnsupportedSymbol"
                ELSE /\ started => net[r][i].calls = 1
                     /\ Failed(r, i) =>
                          /\ net[r][i].got
                          /\ local[r][i].err.kind \in {"TransportError", "RemoteError", "DecodeError"}

\* C7 witness: an unknown symbol; CoinGecko and Kraken have failed without a
\* call, Binance and Coinbase have failed on the answer to theirs.
C7_Witness ==
    \E r \in reqs :
        /\ symbol[r] = <<"F","O","O">>
        /\ \A i \in Tasks : Failed(r, i)
        /\ local[r][1].err.kind = "RemoteError" /\ local[r][4].err.kind = "TransportError"
        /\ local[r][2].err.kind = "UnsupportedSymbol" /\ net[r][3].calls = 0

\* a non-empty string of digits with at most one decimal point
NumericLooking(p) ==
    /\ Len(p) > 0
    /\ \A k \in 1..Len(p) : p[k] = "." \/ \E d \in 1..Len(Digits) : Digits[d] = p[k]
    /\ \E k \in 1..Len(p) : p[k] # "."
    /\ Cardinality({k \in 1..Len(p) : p[k] = "."}) <= 1

\* C8: if every adapter returns without error, every entry's price is a
\* non-empty numeric-looking string and none is the placeholder.
C8_AllSucceedNumeric ==
    \A r \in reqs :
        (Returned(r) /\ \A i \in Tasks : Succeeded(r, i)) =>
            \A k \in 1..Len(report[r]) :
                /\ NumericLooking(report[r][k].Price)
                /\ report[r][k].Price # ErrorPlaceholder

ErrorKinds == {"UnsupportedSymbol", "RemoteError", "DecodeError", "PriceNotFound",
               "TransportError"}

\* C9: an adapter's error of any kind ends in its own slot as the placeholder
\* "Error fetching price", also when the adapter returned a price with the
\* error; the aggregator still returns its 4 entries and the endpoint still
\* answers 200.
C9_ErrorsContained ==
    \A r \in reqs : \A i \in Tasks :
        Failed(r, i) =>
            /\ local[r][i].err.kind \in ErrorKinds
            /\ local[r][i].price = ErrorPlaceholder
            /\ tpc[r][i] = "done" => prices[r][i].Price = ErrorPlaceholder
            /\ Returned(r) => Len(report[r]) = 4 /\ report[r][i].Price = ErrorPlaceholder
            /\ status[r] \in {0, 200}
            /\ hpc[r] = "done" => status[r] = 200 /\ body[r].prices[i].Price = ErrorPlaceholder

\* C9 witness: Binance returned a price together with a decode error (main.go),
\* and the endpoint has answered with the placeholder in its slot.
C9_Witness ==
    \E r \in reqs :
        /\ hpc[r] = "done"
        /\ local[r][1].err.kind = "DecodeError"
        /\ local[r][1].retPrice # <<>>
        /\ body[r].prices[1].Price = ErrorPlaceholder

\* C10: whatever the interleaving of two requests, a request's slice holds only
\* entries written by its own tasks - its own symbol in the label, the price
\* from its own adapter's answer - and the report it returns is that slice.
C10_NoSharing ==
    \A r \in reqs :
        /\ ~Invoked(r) => prices[r] = <<>> /\ report[r] = <<>>
        /\ Invoked(r) =>
            /\ \A k \in Tasks :
                LET ret == Fetch(Names[k], symbol[r], net[r][k].resp) IN
                IF tpc[r][k] = "done"
                THEN prices[r][k] =
                        [Source |-> <<RegisteredOrder[k], " (">> \o ToUpper(symbol[r]) \o <<")">>,
                         Price  |-> IF ret.err # Nil THEN ErrorPlaceholder ELSE ret.price]
                ELSE prices[r][k] = ZeroResponse
            /\ Returned(r) => report[r] = prices[r]

\* C10 witness: two requests for different symbols were in the aggregator at
\* the same time and both have returned, one with quotes, the other with
\* placeholders.
C10_Witness ==
    /\ reqs = {1, 2}
    /\ hpc[1] = "returned" /\ hpc[2] = "returned"
    /\ symbol[1] # symbol[2]
    /\ \A k \in Tasks : /\ NumericLooking(report[1][k].Price)
                        /\ report[2][k].Price = ErrorPlaceholder

\* C11: within one aggregation, a step changes slot k of the prices slice only
\* if it is task k passing from the locked section to its end, the slot still
\* held the zero value, no other slot and no other task moves in that step,
\* and the value written is the label of adapter k with the price derived
\* from adapter k's own outcome; a task leaving the locked section has filled
\* its slot. So no slot is written twice or by another task, and the slice
\* does not depend on the order in which the tasks complete.
C11_OwnSlotOnce ==
    [][\A r \in reqs :
        Len(prices[r]) = Len(Names) =>
            /\ Len(prices'[r]) = Len(Names)
            /\ \A k \in Tasks :
                /\ prices'[r][k] # prices[r][k] =>
                    LET ret == Fetch(Names[k], symbol[r], net[r][k].resp) IN
                    /\ prices[r][k] = ZeroResponse
                    /\ tpc[r][k] = "locked" /\ tpc'[r][k] = "done"
                    /\ \A j \in Tasks \ {k} : /\ tpc'[r][j] = tpc[r][j]
                                              /\ prices'[r][j] = prices[r][j]
                    /\ prices'[r][k] =
                        [Source |-> <<RegisteredOrder[k], " (">> \o ToUpper(symbol[r]) \o <<")">>,
                         Price  |-> IF ret.err # Nil THEN ErrorPlaceholder ELSE ret.price]
                /\ (tpc[r][k] = "locked" /\ tpc'[r][k] = "done") =>
                    prices'[r][k] # ZeroResponse
      ]_vars

\* C11 witness: the slots were filled against the registration order - the
\* last adapter's slot holds its quote, the second's its placeholder, while
\* the first task still waits for the mutex and the third holds it.
C11_Witness ==
    \E r \in reqs :
        /\ tpc[r][1] = "fetched" /\ prices[r][1] = ZeroResponse
        /\ tpc[r][3] = "locked"  /\ prices[r][3] = ZeroResponse
        /\ tpc[r][2] = "done" /\ prices[r][2].Price = ErrorPlaceholder
        /\ tpc[r][4] = "done" /\ NumericLooking(prices[r][4].Price)

\* C12: the adapters are dispatched concurrently. The loop can start the next
\* task whatever the earlier tasks are doing; a started task can issue its
\* call, and a call in flight can come back, whatever the position of the
\* other three tasks - no adapter's network call waits for another adapter.
C12_ConcurrentDispatch ==
    \A r \in reqs :
        /\ hpc[r] = "spawn" => ENABLED Spawn(r)
        /\ \A i \in Tasks :
            /\ tpc[r][i] = "start" => ENABLED TaskFetch(r, i)
            /\ tpc[r][i] = "calling" =>
                ENABLED (\E resp \in AllResponses : TaskReceive(r, i, resp))

\* C12 witness: all four network calls are in flight at the same time, each
\* issued once and none answered yet.
C12_Witness ==
    \E r \in reqs :
        \A i \in Tasks : /\ tpc[r][i] = "calling"
                         /\ net[r][i].calls = 1
                         /\ ~net[r][i].got

\* C13: within one aggregation every adapter issues at most one network call:
\* none before its task has called Fetch, exactly one from then on when its
\* table lookup succeeds or it has no lookup, none when the lookup fails - and
\* still one after the call ended in a transport error, a non-200 status or a
\* decode error. One aggregation issues at most 4 calls.
C13_OneCallNoRetry ==
    \A r \in reqs :
        Invoked(r) =>
            /\ \A i \in Tasks :
                /\ net[r][i].calls <= 1
                /\ tpc[r][i] \in {"none", "start"} => net[r][i].calls = 0
                /\ tpc[r][i] \in {"calling", "fetched", "locked", "done"} =>
                    net[r][i].calls = IF FetchRequest(Names[i], symbol[r]).ok THEN 1 ELSE 0
            /\ net[r][1].calls + net[r][2].calls + net[r][3].calls + net[r][4].calls
                    <= Len(Names)

\* C13 witness: an aggregation has returned in which one call ended in a
\* transport error, one in a non-200 status and one in a decode error, each
\* adapter having called once.
C13_Witness ==
    \E r \in reqs :
        /\ Returned(r)
        /\ local[r][1].err.kind = "TransportError"
        /\ local[r][2].err.kind = "RemoteError"
        /\ local[r][3].err.kind = "DecodeError"
        /\ \A i \in Tasks : net[r][i].calls = 1

\* the 200 response of adapter i of request r was decoded and the place the
\* adapter reads its price from is absent from it
PriceAbsent(r, i) ==
    /\ net[r][i].got
    /\ Decoded(net[r][i].resp)
    /\ net[r][i].resp.vals = <<>>

\* C14: whenever an adapter gets a 200 response that decodes but in which its
\* price field is absent (Binance: no price; CoinGecko: no coin id or usd key;
\* Kraken: no pair or an empty quote list; Coinbase: no data.amount), the
\* adapter fails with PriceNotFound and returns no price.
C14_AbsentFieldIsPriceNotFound ==
    \A r \in reqs : \A i \in Tasks :
        PriceAbsent(r, i) =>
            /\ local[r][i].err.kind = "PriceNotFound"
            /\ local[r][i].retPrice = <<>>

\* C15: there is no timeout and no cancellation. As long as one adapter's
\* network call has not come back, fetchPricesConcurrently has not returned
\* and cannot return - the wait group is still held, the join is disabled and
\* nothing has been answered - however many of the other tasks have finished;
\* and a task gets past its call only by the call coming back.
C15_HungCallStallsRequest ==
    \A r \in reqs :
        /\ (\E i \in Tasks : tpc[r][i] = "calling") =>
            /\ ~Returned(r)
            /\ hpc[r] \in {"spawn", "wait"}
            /\ wg[r] > 0
            /\ ~ENABLED Wait(r)
            /\ status[r] = 0 /\ report[r] = <<>>
        /\ \A i \in Tasks :
            (tpc[r][i] \in {"fetched", "locked", "done"} /\ net[r][i].calls > 0) =>
                net[r][i].got

\* C15 witness: three tasks have completed and written their slots, the
\* fourth call is still in flight, and the aggregator sits at the join.
C15_Witness ==
    \E r \in reqs : \E i \in Tasks :
        /\ hpc[r] = "wait"
        /\ tpc[r][i] = "calling"
        /\ \A j \in Tasks \ {i} : tpc[r][j] = "done"
        /\ wg[r] = 1 /\ mu[r] = 0

\* tasks of request r that were started and have not yet signalled the wait group
Pending(r) == {i \in Tasks : tpc[r][i] \in {"start", "calling", "fetched", "locked"}}

\* C16: under fair scheduling, and every network call coming back, every
\* invocation of fetchPricesConcurrently returns, whatever the adapters'
\* outcomes; the mutex is held only by a task inside its locked section; the
\* wait group counts exactly the started tasks that have not yet signalled it
\* (each signals once); and at the return every task has reached its end, the
\* wait group is zero and the mutex is free.
C16_EventuallyReturns ==
    /\ [](\A r \in reqs :
            /\ hpc[r] \in {"wait", "returned", "done"} /\ Invoked(r) =>
                wg[r] = Cardinality(Pending(r))
            /\ mu[r] # 0 => tpc[r][mu[r]] = "locked"
            /\ Returned(r) => /\ wg[r] = 0 /\ mu[r] = 0
                              /\ \A i \in Tasks : tpc[r][i] = "done")
    /\ \A r \in Served : Invoked(r) ~> Returned(r)

\* C16 witness: all four network calls came back, some with a quote and some
\* with an error, every task signalled the wait group, and
\* fetchPricesConcurrently has returned.
C16_Witness ==
    \E r \in reqs :
        /\ hpc[r] = "returned"
        /\ \A i \in Tasks : net[r][i].got /\ tpc[r][i] = "done"
        /\ \E j, k \in Tasks : Failed(r, j) /\ Succeeded(r, k)
        /\ wg[r] = 0 /\ mu[r] = 0

\* the tokens of part all occur in text
Carries(text, part) ==
    \A k \in 1..Len(part) : \E j \in 1..Len(text) : text[j] = part[k]

\* C17: an adapter whose call came back with a non-200 status fails with a
\* RemoteError and returns no price; the error carries the code and message
\* of the exchange's structured error body where there is one, and the raw
\* status otherwise.
C17_RemoteErrorCarriesDiagnostic ==
    \A r \in reqs : \A i \in Tasks :
        LET resp == net[r][i].resp IN
        (net[r][i].got /\ ~resp.transport /\ resp.status # 200) =>
            /\ local[r][i].err.kind = "RemoteError"
            /\ local[r][i].retPrice = <<>>
            /\ IF resp.diag # <<>>
               THEN Carries(local[r][i].err.msg, resp.diag)
               ELSE Carries(local[r][i].err.msg, Itoa(resp.status))

\* C18: the two translation tables hold, in every reachable state - whatever
\* requests, for known and unknown symbols, are being served and however
\* their steps interleave - exactly the entries they were declared with: no
\* operation mutates them.
C18_TablesNeverMutated ==
    /\ DOMAIN coinGeckoSymbols = {<<"B","T","C">>, <<"E","T","H">>, <<"S","O","L">>,
                                  <<"D","O","G","E">>, <<"S","H","I","B">>}
    /\ DOMAIN krakenSymbols = DOMAIN coinGeckoSymbols
    /\ coinGeckoSymbols[<<"B","T","C">>] = <<"bitcoin">>
    /\ coinGeckoSymbols[<<"E","T","H">>] = <<"ethereum">>
    /\ coinGeckoSymbols[<<"S","O","L">>] = <<"solana">>
    /\ coinGeckoSymbols[<<"D","O","G","E">>] = <<"dogecoin">>
    /\ coinGeckoSymbols[<<"S","H","I","B">>] = <<"shiba-inu">>
    /\ krakenSymbols[<<"B","T","C">>] = <<"XXBTZUSD">>
    /\ krakenSymbols[<<"E","T","H">>] = <<"XETHZUSD">>
    /\ krakenSymbols[<<"S","O","L">>] = <<"SOLUSD">>
    /\ krakenSymbols[<<"D","O","G","E">>] = <<"XDGUSD">>
    /\ krakenSymbols[<<"S","H","I","B">>] = <<"SHIBUSD">>

\* C18 witness: two requests are in the aggregator at the same time; the
\* lookups of the first (a known symbol) succeeded and its CoinGecko and
\* Kraken calls are in flight, the lookups of the second (an unknown symbol)
\* have failed.
C18_Witness ==
    /\ reqs = {1, 2}
    /\ \A i \in {2, 3} :
        /\ tpc[1][i] = "calling" /\ net[1][i].calls = 1
        /\ Failed(2, i) /\ local[2][i].err.kind = "UnsupportedSymbol"
    /\ ~Returned(1) /\ ~Returned(2)

====
